---- MODULE Spec2Model ----
(***************************************************************************)
(* Model of the auction bot's lifecycle-and-concurrency core:              *)
(*   handlers/auction.py   process_bid_safe / process_bid  (PlaceBid)      *)
(*   utils/timer.py        AuctionTimerManager (timers, _end_auction,      *)
(*                         restore, expired-auction sweep)                 *)
(*   utils/periodic_updater.py  _check_timers (orphan re-arm)              *)
(*   utils/channel_updater.py   update_expired_messages (startup fix)      *)
(*   handlers/admin.py     admin_end_auction (EndEarly)                    *)
(*   bot.py                main (startup order)                            *)
(*                                                                         *)
(* One auction is modelled.  Every coroutine is cut at its await points:   *)
(* each action is the code between two awaits.  The store is the SQLite    *)
(* database of database/database.py: SELECT ... FOR UPDATE takes no row    *)
(* lock there and a SELECT opens no transaction, so a read observes the    *)
(* latest committed row and a commit writes the columns the ORM object     *)
(* changed, atomically.                                                    *)
(***************************************************************************)
EXTENDS Integers, FiniteSets, Sequences, TLC

\* ---- bounds of the model -------------------------------------------------
MaxTime == 3
MaxTasks == 2
MaxBidTasks == 2
MaxBidCalls == 2
MaxSteps == 2
MaxPasses == 2
MaxPassCalls == 3
MaxStarts == 3
MaxRefresh == 2
StartPrice == 100
StepPrice == 10

\* Config.BID_TIMEOUT_MINUTES, here in clock ticks (the value is read from
\* the environment; the model runs the configuration with a timeout of 2).
BID_TIMEOUT_MINUTES == 2

Users == {"u1", "u2"}
NoUser == "none"
Amounts == {StartPrice + k * StepPrice : k \in 0..MaxSteps}
Times == 0..MaxTime
TimerTasks == 1..MaxTasks
BidTasks == 1..MaxBidTasks

\* ---- process identities --------------------------------------------------
Timer(t) == <<"timer", t>>
Bidder(b) == <<"bid", b>>
Sweep == <<"sweep", 0>>
Check == <<"check", 0>>
Restore == <<"restore", 0>>
Creator == <<"create", 0>>
Free == <<"free", 0>>

\* coroutines that call start_auction_timer
Callers == {Bidder(b) : b \in BidTasks} \cup {Check, Restore, Creator}
\* coroutines that run _end_auction
Closers == {Timer(t) : t \in TimerTasks} \cup Callers \cup {Sweep}

\* ---- rows ----------------------------------------------------------------
NoBid == [id |-> 0, user |-> NoUser, amount |-> 0, created_at |-> 0]

\* select(Bid).where(auction_id == id).order_by(desc(Bid.amount)).limit(1):
\* the rows of maximal amount; SQL leaves the choice among equal amounts open.
TopBids(bs) == {b \in bs : \A c \in bs : c.amount <= b.amount}

TopBidChoices(bs) == IF bs = {} THEN {NoBid} ELSE TopBids(bs)

VARIABLES
  \* persisted Auction row (database/models.py)
  status, current_price, last_bid_time, ends_at, ended_at, winner_id,
  channel_message_id,
  \* persisted Bid rows and the next primary key
  bids, nextBidId,
  \* wall clock (datetime.utcnow) and its value when the process started
  now, bootTime,
  \* AuctionTimerManager: active_timers entry of the auction (0 = absent),
  \* the asyncio tasks created for it, the asyncio.Lock holder, self.bot
  active_timers, tasks, lock, botSet,
  \* in-flight _end_auction calls, start_auction_timer calls, bid handlers
  ea, sat, bt, bidBudget,
  \* periodic_check sweep, _check_timers, admin_end_auction
  sweep, check, admin,
  \* startup sequence of main(), restore_timers_improved,
  \* update_expired_messages
  phase, restore, fix,
  \* history: number of committed Active->Ended writes, who committed the
  \* last one, winner notifications attempted, terminal announcements sent
  closeCount, closedBy, notified, announced,
  \* cmd_cancel_bid / cancel_bid_confirm (CancelLastBid), admin_delete_auction
  cancel, deletion,
  \* the active_timers entry of another auction: "sleep" = a task asleep
  \* until that auction's deadline, "none" = no entry
  other_timers,
  \* ChannelUpdater.is_updating; each invoker of update_all_channel_messages:
  \* inside a pass ("list", "edit") or how its last invocation returned
  \* ("skipped" at the guard, "early" from the SELECT, "done" after the
  \* loop); the number of invocations made
  is_updating, pass, passCalls,
  \* PeriodicUpdater.is_running, the periodic tasks alive (running, or
  \* cancelled and not yet ended), the start() calls
  \* made, each with what it found ("running") or did ("created")
  is_running, periodic_tasks, starts,
  \* PeriodicUpdater._update_all_active_auctions: the pass in progress (the
  \* auctions its SELECT returned, those still to do, those it has tried and
  \* those whose refresh raised) and the number of passes started (counted
  \* up to MaxRefresh)
  refresh

updVars == <<is_updating, pass, passCalls, is_running, periodic_tasks, starts, refresh>>

dbVars == <<status, current_price, last_bid_time, ends_at, ended_at, winner_id,
           channel_message_id, bids, nextBidId>>
tmVars == <<active_timers, tasks, lock, botSet>>
histVars == <<closeCount, closedBy, notified, announced>>
vars == <<status, current_price, last_bid_time, ends_at, ended_at, winner_id,
          channel_message_id, bids, nextBidId, now, bootTime, other_timers, updVars, active_timers, tasks, lock, botSet, ea, sat,
          bt, bidBudget, sweep, check, admin, phase, restore, fix,
          closeCount, closedBy, notified, announced, cancel, deletion>>

procVars == <<bt, bidBudget, sweep, check, admin, phase, restore, fix>>

IdleEnd == [pc |-> "idle", wb |-> NoBid, price0 |-> 0, endedAt |-> 0]
IdleSat == [pc |-> "idle", ends |-> 0]
\* a closure written inline by a handler or a startup routine
IdleJob == [pc |-> "idle", wb |-> NoBid, price0 |-> 0, endedAt |-> 0, ends |-> 0]
\* the CancelLastBid dialogue of one user: the bid the prompt offered, the
\* auction columns cancel_bid_confirm loaded, the values it computed
IdleCancel == [pc |-> "idle", user |-> NoUser, bid |-> NoBid, price0 |-> 0,
               lbt0 |-> 0, ends0 |-> 0, price |-> 0, lbt |-> 0, ends |-> 0]

UnusedTask == [pc |-> "unused", deadline |-> 0]
InFinally == [pc |-> "finally", deadline |-> 0]
\* a task suspended in `async with self.lock` of its finally block
QueuedTask == [pc |-> "queued", deadline |-> 0]
DoneTask == [pc |-> "done", deadline |-> 0]

\* An edit of the channel post to the terminal form: nothing is sent without
\* a channel_message_id, and the Announcer call itself may fail.
Announce(ok) == IF ok /\ channel_message_id # 0 THEN announced + 1 ELSE announced

\* ---- AuctionTimerManager._end_auction (Close) ----------------------------
\* `if not self.bot: return`, then the SELECT of the auction WHERE
\* status == 'active'; no row: "already ended or not found", return.
EndLoadFinds_anyStatus == botSet

EndLoadFinds == botSet /\ status = "active"

EndLoad(c) ==
  /\ ea[c].pc = "load"
  /\ ea' = IF EndLoadFinds
             THEN [ea EXCEPT ![c] = [pc |-> "pick", wb |-> NoBid,
                                     price0 |-> current_price, endedAt |-> 0]]
             ELSE [ea EXCEPT ![c].pc = "done"]
  /\ UNCHANGED <<cancel, deletion, dbVars, now, bootTime, other_timers, updVars, tmVars, sat, procVars, histVars>>

\* SELECT of the winning bid; status, ended_at set on the loaded object.
EndPick(c) ==
  /\ ea[c].pc = "pick"
  /\ \E wb \in TopBidChoices(bids) :
       ea' = [ea EXCEPT ![c].pc = "commit", ![c].wb = wb, ![c].endedAt = now]
  /\ UNCHANGED <<cancel, deletion, dbVars, now, bootTime, other_timers, updVars, tmVars, sat, procVars, histVars>>

\* session.commit(): UPDATE of the columns whose value differs from the
\* loaded one (status, ended_at, and with a winning bid winner_id and
\* current_price).
\* auction.status = 'ended'
EndedStatus_active == "active"

EndedStatus == "ended"

EndCommit(c) ==
  /\ ea[c].pc = "commit"
  /\ status # "deleted"
  /\ status' = EndedStatus
  /\ ended_at' = ea[c].endedAt
  /\ winner_id' = IF ea[c].wb # NoBid THEN ea[c].wb.user ELSE winner_id
  /\ current_price' = IF ea[c].wb # NoBid /\ ea[c].wb.amount # ea[c].price0
                        THEN ea[c].wb.amount ELSE current_price
  /\ closeCount' = closeCount + 1
  /\ closedBy' = c
  /\ ea' = [ea EXCEPT ![c].pc = "tell"]
  /\ UNCHANGED <<cancel, deletion, last_bid_time, ends_at, bids, nextBidId, channel_message_id, now, bootTime, other_timers, updVars, tmVars, sat,
                 procVars, notified, announced>>

\* _update_channel_message (every Announcer error is caught inside), then
\* `if winning_bid and self.bot: await self._notify_winner(...)`.
EndTell(c) ==
  /\ ea[c].pc = "tell"
  /\ \E ok \in BOOLEAN : announced' = Announce(ok)
  /\ notified' = IF ea[c].wb # NoBid THEN Append(notified, ea[c].wb.user)
                                     ELSE notified
  /\ ea' = [ea EXCEPT ![c].pc = "done"]
  /\ UNCHANGED <<cancel, deletion, dbVars, now, bootTime, other_timers, updVars, tmVars, sat, procVars, closeCount, closedBy>>

\* A storage exception at one of the statements of _end_auction or at its
\* session.commit(): get_db rolls back and re-raises, `except Exception` at
\* the end of _end_auction logs it and the call returns normally; nothing of
\* the closure is written and nobody is told.
EndFail(c) ==
  /\ ea[c].pc \in {"load", "pick", "commit"}
  /\ botSet
  /\ ea' = [ea EXCEPT ![c].pc = "done"]
  /\ UNCHANGED <<cancel, deletion, dbVars, now, bootTime, other_timers, updVars, tmVars, sat, procVars, histVars>>

\* ---- utils/channel_updater.py: ChannelUpdater ----------------------------
\* coroutines that invoke update_all_channel_messages on the one instance
\* get_channel_updater returns
Invokers == 1..MaxPasses

\* the auctions a pass can meet: 1 is the auction of this model, 2 another
\* auction of the same bot
Auctions == {1, 2}

IdleRefresh == [pc |-> "idle", listed |-> {}, todo |-> <<>>, tried |-> {},
                failed |-> {}, passes |-> 0]

UpdInit ==
  /\ is_updating = FALSE
  /\ pass = [i \in Invokers |-> "idle"]
  /\ passCalls = 0
  /\ is_running = FALSE
  /\ periodic_tasks = [running |-> 0, cancelled |-> 0]
  /\ starts = <<>>
  /\ refresh = IdleRefresh

\* `if self.is_updating: return`
PassSkips_never == FALSE

PassSkips == is_updating

\* update_all_channel_messages is entered: a pass in progress makes it
\* return; otherwise is_updating = True and the SELECT of the auctions with
\* a channel post is awaited.
PassEnter(i) ==
  /\ pass[i] \in {"idle", "skipped", "early", "done"}
  /\ passCalls < MaxPassCalls
  /\ passCalls' = passCalls + 1
  /\ IF PassSkips
       THEN /\ pass' = [pass EXCEPT ![i] = "skipped"]
            /\ UNCHANGED is_updating
       ELSE /\ is_updating' = TRUE
            /\ pass' = [pass EXCEPT ![i] = "list"]
  /\ UNCHANGED <<cancel, deletion, dbVars, now, bootTime, other_timers, tmVars, ea, sat,
                 procVars, histVars, refresh, is_running, periodic_tasks, starts>>

\* the auctions WHERE channel_message_id IS NOT NULL
PassFinds == status # "deleted" /\ channel_message_id # 0

\* the SELECT returns: no auction, or an exception: the function leaves
\* through `finally: self.is_updating = False`; otherwise the loop starts.
PassList(i) ==
  /\ pass[i] = "list"
  /\ \E raises \in BOOLEAN :
       IF raises \/ ~PassFinds
         THEN /\ pass' = [pass EXCEPT ![i] = "early"]
              /\ is_updating' = FALSE
         ELSE /\ pass' = [pass EXCEPT ![i] = "edit"]
              /\ UNCHANGED is_updating
  /\ UNCHANGED <<cancel, deletion, dbVars, now, bootTime, other_timers, tmVars, ea, sat,
                 procVars, histVars, refresh, passCalls, is_running, periodic_tasks, starts>>

\* the loop over the auctions: the bid SELECTs and _update_single_message,
\* errors caught per auction; then the finally block.  Nothing is written
\* to the store.
PassEdit(i) ==
  /\ pass[i] = "edit"
  /\ pass' = [pass EXCEPT ![i] = "done"]
  /\ is_updating' = FALSE
  /\ UNCHANGED <<cancel, deletion, dbVars, now, bootTime, other_timers, tmVars, ea, sat,
                 procVars, histVars, refresh, passCalls, is_running, periodic_tasks, starts>>

PassStep == \E i \in Invokers : PassEnter(i) \/ PassList(i) \/ PassEdit(i)

\* ---- utils/periodic_updater.py: PeriodicUpdater.start, stop --------------
\* `if self.is_running: return`; else is_running = True and
\* asyncio.create_task(self._periodic_update_task()).
UpdaterStart ==
  /\ Len(starts) < MaxStarts
  /\ IF is_running
       THEN /\ starts' = Append(starts, "running")
            /\ UNCHANGED <<is_running, periodic_tasks>>
       ELSE /\ starts' = Append(starts, "created")
            /\ is_running' = TRUE
            /\ periodic_tasks' = [periodic_tasks EXCEPT !.running = @ + 1]
  /\ UNCHANGED <<cancel, deletion, dbVars, now, bootTime, other_timers, tmVars, ea, sat,
                 procVars, histVars, refresh, is_updating, pass, passCalls>>

\* stop(): is_running = False; self.task.cancel(); then the task is awaited
UpdaterStop ==
  /\ is_running
  /\ is_running' = FALSE
  /\ periodic_tasks' = [running |-> 0,
                        cancelled |-> periodic_tasks.cancelled + periodic_tasks.running]
  /\ UNCHANGED <<cancel, deletion, dbVars, now, bootTime, other_timers, tmVars, ea, sat,
                 procVars, histVars, refresh, is_updating, pass, passCalls, starts>>

\* _periodic_update_task receives CancelledError at its await and returns
UpdaterTaskEnd ==
  /\ periodic_tasks.cancelled > 0
  /\ periodic_tasks' = [periodic_tasks EXCEPT !.cancelled = @ - 1]
  /\ UNCHANGED <<cancel, deletion, dbVars, now, bootTime, other_timers, tmVars, ea, sat,
                 procVars, histVars, refresh, is_updating, pass, passCalls, is_running, starts>>

\* ---- PeriodicUpdater._update_all_active_auctions ------------------------
\* the orders in which a SELECT ... ORDER BY ends_at can return the set
Orderings(S) ==
  IF S = {} THEN {<<>>}
  ELSE IF Cardinality(S) = 1 THEN {<<CHOOSE a \in S : TRUE>>}
  ELSE {<<a, b>> : a \in S, b \in S} \ {<<a, a>> : a \in S}

\* the auctions WHERE status == 'active' AND channel_message_id IS NOT NULL;
\* `others` are the rows of the other auction that satisfy it
RefreshFinds(others) ==
  (IF status = "active" /\ channel_message_id # 0 THEN {1} ELSE {}) \cup others

\* one iteration of `while self.is_running`: `if not self.bot: return`, the
\* SELECT, `if not auctions: return`.  No condition on bids or on the time
\* of the last refresh.
RefreshList ==
  /\ phase = "polling"
  /\ botSet
  /\ refresh.pc = "idle"
  /\ \E others \in SUBSET {2} :
       \E order \in Orderings(RefreshFinds(others)) :
         refresh' = [pc |-> IF order = <<>> THEN "idle" ELSE "run",
                     listed |-> RefreshFinds(others), todo |-> order,
                     tried |-> {}, failed |-> {},
                     passes |-> IF refresh.passes < MaxRefresh
                                  THEN refresh.passes + 1 ELSE refresh.passes]
  /\ UNCHANGED <<cancel, deletion, dbVars, now, bootTime, other_timers, tmVars, ea, sat,
                 procVars, histVars, is_updating, pass, passCalls, is_running,
                 periodic_tasks, starts>>

\* what is left of the loop after the refresh of one auction
RefreshRest_stopOnError(todo, ok) == IF ok THEN Tail(todo) ELSE <<>>

RefreshRest(todo, ok) == Tail(todo)

\* the loop body: _update_single_auction_safe reloads the auction, reads
\* its bids and edits the channel post; an exception it raises is caught by
\* the `except Exception` inside the loop and the loop goes on.
RefreshOne ==
  /\ refresh.pc = "run"
  /\ \E ok \in BOOLEAN :
       LET a == Head(refresh.todo)
           rest == RefreshRest(refresh.todo, ok)
       IN refresh' = [refresh EXCEPT
                        !.pc = IF rest = <<>> THEN "idle" ELSE "run",
                        !.todo = rest,
                        !.tried = @ \cup {a},
                        !.failed = IF ok THEN @ ELSE @ \cup {a}]
  /\ UNCHANGED <<cancel, deletion, dbVars, now, bootTime, other_timers, tmVars, ea, sat,
                 procVars, histVars, is_updating, pass, passCalls, is_running,
                 periodic_tasks, starts>>

RefreshStep == RefreshList \/ RefreshOne

\* ---- asyncio task cancellation -------------------------------------------
\* task.cancel(): CancelledError is raised at the task's pending await.  A
\* sleeping or closing task goes to its finally block (CancelledError is not
\* an Exception, so _end_auction and get_db do not catch it: a closure that
\* has not committed is rolled back, one that has committed is cut before
\* the notification).  A task suspended on the lock in its finally block
\* gets the CancelledError there and leaves the block without the `del`.  A
\* task on its way to the finally block is not cancelled a second time.
CancelledTasks(t) ==
  IF t = 0 THEN tasks
  ELSE [tasks EXCEPT ![t] =
          IF @.pc \in {"sleep", "closing"} THEN InFinally
          ELSE IF @.pc = "queued" THEN DoneTask
          ELSE @]

CancelledEa(t) ==
  IF t # 0 /\ tasks[t].pc = "closing" THEN [ea EXCEPT ![Timer(t)] = IdleEnd]
                                      ELSE ea

\* ---- AuctionTimerManager._auction_timer_task -----------------------------
\* asyncio.sleep(wait_time) has elapsed: call _end_auction.
TimerFire(t) ==
  /\ tasks[t].pc = "sleep"
  /\ now >= tasks[t].deadline
  /\ tasks' = [tasks EXCEPT ![t].pc = "closing"]
  /\ ea' = [ea EXCEPT ![Timer(t)].pc = "load"]
  /\ UNCHANGED <<cancel, deletion, dbVars, now, bootTime, other_timers, updVars, active_timers, lock, botSet, sat, procVars, histVars>>

TimerEndReturn(t) ==
  /\ tasks[t].pc = "closing"
  /\ ea[Timer(t)].pc = "done"
  /\ tasks' = [tasks EXCEPT ![t] = InFinally]
  /\ ea' = [ea EXCEPT ![Timer(t)] = IdleEnd]
  /\ UNCHANGED <<cancel, deletion, dbVars, now, bootTime, other_timers, updVars, active_timers, lock, botSet, sat, procVars, histVars>>

\* finally: `async with self.lock` while another coroutine holds the lock:
\* the task is suspended until the lock is released.
TimerQueue(t) ==
  /\ tasks[t].pc = "finally"
  /\ lock # Free
  /\ tasks' = [tasks EXCEPT ![t] = QueuedTask]
  /\ UNCHANGED <<cancel, deletion, dbVars, now, bootTime, other_timers, updVars, active_timers, lock, botSet, ea, sat, procVars, histVars>>

\* finally: async with self.lock: if auction_id in self.active_timers:
\*              del self.active_timers[auction_id]
\* The entry is removed whichever task it refers to.
FinallyEntry(t) == 0

\* the `del` is keyed by the task's own auction_id: the entries of other
\* auctions stay
FinallyOthers_cleared(o) == "none"

FinallyOthers(o) == o

TimerFinally(t) ==
  /\ tasks[t].pc \in {"finally", "queued"}
  /\ lock = Free
  /\ active_timers' = IF active_timers # 0 THEN FinallyEntry(t) ELSE active_timers
  /\ other_timers' = FinallyOthers(other_timers)
  /\ tasks' = [tasks EXCEPT ![t] = DoneTask]
  /\ UNCHANGED <<cancel, deletion, dbVars, now, bootTime, updVars, lock, botSet, ea, sat, procVars, histVars>>

\* ---- AuctionTimerManager.start_auction_timer (Schedule) ------------------
\* async with self.lock; an existing entry's task is cancelled, then
\* asyncio.sleep(0.1).
SchedAcquire(c) ==
  /\ sat[c].pc = "lock"
  /\ lock = Free
  /\ lock' = c
  /\ tasks' = CancelledTasks(active_timers)
  /\ ea' = CancelledEa(active_timers)
  /\ sat' = [sat EXCEPT ![c].pc = "check"]
  /\ UNCHANGED <<cancel, deletion, dbVars, now, bootTime, other_timers, updVars, active_timers, botSet, procVars, histVars>>

\* a task slot the model may use for asyncio.create_task
FreshTasks == {t \in TimerTasks : tasks[t].pc \in {"unused", "done"} /\ t # active_timers}

FreshTask == CHOOSE t \in FreshTasks : \A u \in FreshTasks : t <= u

\* SELECT of the auction WHERE status == 'active'; none: return.
\* time_diff <= 0: await self._end_auction(auction_id) with the lock held.
\* Otherwise create the task and store it in active_timers.
SchedFinds_anyStatus == status # "deleted"

SchedFinds == status = "active"

SchedCheck(c) ==
  /\ sat[c].pc = "check"
  /\ IF ~SchedFinds
       THEN /\ lock' = Free
            /\ sat' = [sat EXCEPT ![c] = IdleSat]
            /\ UNCHANGED <<tasks, active_timers, ea>>
     ELSE IF sat[c].ends <= now
       THEN /\ ea' = [ea EXCEPT ![c].pc = "load"]
            /\ sat' = [sat EXCEPT ![c].pc = "ending"]
            /\ UNCHANGED <<tasks, active_timers, lock>>
     ELSE /\ FreshTasks # {}
          /\ tasks' = [tasks EXCEPT ![FreshTask] = [pc |-> "sleep", deadline |-> sat[c].ends]]
          /\ active_timers' = FreshTask
          /\ lock' = Free
          /\ sat' = [sat EXCEPT ![c] = IdleSat]
          /\ UNCHANGED ea
  /\ UNCHANGED <<cancel, deletion, dbVars, now, bootTime, other_timers, updVars, botSet, procVars, histVars>>

SchedEndReturn(c) ==
  /\ sat[c].pc = "ending"
  /\ ea[c].pc = "done"
  /\ ea' = [ea EXCEPT ![c] = IdleEnd]
  /\ sat' = [sat EXCEPT ![c] = IdleSat]
  /\ lock' = Free
  /\ UNCHANGED <<cancel, deletion, dbVars, now, bootTime, other_timers, updVars, active_timers, tasks, botSet, procVars, histVars>>

\* ---- the clock -----------------------------------------------------------
Tick ==
  /\ now < MaxTime
  /\ now' = now + 1
  /\ UNCHANGED <<cancel, deletion, dbVars, bootTime, other_timers, updVars, tmVars, ea, sat, procVars, histVars>>

\* ---- handlers/auction.py: process_bid -> process_bid_safe (PlaceBid) -----
ConfirmedUsers == Users

\* max_retries of process_bid_safe
max_retries == 3

\* attempt is the loop variable of `for attempt in range(max_retries)`
IdleBid == [pc |-> "idle", user |-> NoUser, amount |-> 0, price0 |-> 0,
            lbt0 |-> 0, ends0 |-> 0, lbt |-> 0, prev |-> NoBid, result |-> "none",
            attempt |-> 0]

\* `amount < min_next_bid` with min_next_bid = current_price + step_price
BelowMinimum(amount, price) == amount < price + StepPrice

\* top_bid and top_bid.user_id == user.id
IsLeader(tb, u) == tb # NoBid /\ tb.user = u

\* a Telegram user without a confirmed User row
Stranger == "u0"

\* BidRead with the minimum-bid check ahead of the user check
BidRead_minFirst(b, u, a) ==
  /\ phase = "polling"
  /\ bt[b].pc = "idle"
  /\ bidBudget > 0
  /\ bidBudget' = bidBudget - 1
  /\ bt' = [bt EXCEPT ![b] =
       IF status # "active"
         THEN [IdleBid EXCEPT !.pc = "done", !.user = u, !.amount = a, !.result = "not_found"]
       ELSE IF BelowMinimum(a, current_price)
         THEN [IdleBid EXCEPT !.pc = "done", !.user = u, !.amount = a, !.result = "min_bid"]
       ELSE IF u \notin ConfirmedUsers
         THEN [IdleBid EXCEPT !.pc = "done", !.user = u, !.amount = a, !.result = "not_confirmed"]
       ELSE [IdleBid EXCEPT !.pc = "top", !.user = u, !.amount = a,
                            !.price0 = current_price, !.lbt0 = last_bid_time,
                            !.ends0 = ends_at]]
  /\ UNCHANGED <<cancel, deletion, dbVars, now, bootTime, other_timers, updVars, tmVars, ea, sat, sweep, check, admin, phase,
                 restore, fix, histVars>>

\* The handler is invoked for a callback "bid:<id>:<amount>"; SELECT of the
\* auction WHERE status == 'active' (with_for_update), SELECT of the user,
\* the minimum-bid check.
BidRead(b, u, a) ==
  /\ phase = "polling"
  /\ bt[b].pc = "idle"
  /\ bidBudget > 0
  /\ bidBudget' = bidBudget - 1
  /\ bt' = [bt EXCEPT ![b] =
       IF status # "active"
         THEN [IdleBid EXCEPT !.pc = "done", !.user = u, !.amount = a, !.result = "not_found"]
       ELSE IF u \notin ConfirmedUsers
         THEN [IdleBid EXCEPT !.pc = "done", !.user = u, !.amount = a, !.result = "not_confirmed"]
       ELSE IF BelowMinimum(a, current_price)
         THEN [IdleBid EXCEPT !.pc = "done", !.user = u, !.amount = a, !.result = "min_bid"]
       ELSE [IdleBid EXCEPT !.pc = "top", !.user = u, !.amount = a,
                            !.price0 = current_price, !.lbt0 = last_bid_time,
                            !.ends0 = ends_at]]
  /\ UNCHANGED <<cancel, deletion, dbVars, now, bootTime, other_timers, updVars, tmVars, ea, sat, sweep, check, admin, phase,
                 restore, fix, histVars>>

\* SELECT of the top bid, the leader check; Bid(...) added to the session,
\* current_price, last_bid_time = utcnow(), ends_at set on the loaded object.
BidTop(b) ==
  /\ bt[b].pc = "top"
  /\ \E tb \in TopBidChoices(bids) :
       bt' = [bt EXCEPT ![b] =
                IF IsLeader(tb, bt[b].user)
                  THEN [@ EXCEPT !.pc = "done", !.result = "leading"]
                  ELSE [@ EXCEPT !.pc = "prev", !.lbt = now]]
  /\ UNCHANGED <<cancel, deletion, dbVars, now, bootTime, other_timers, updVars, tmVars, ea, sat, bidBudget, sweep, check, admin,
                 phase, restore, fix, histVars>>

\* SELECT of the previous top bid among the other users' bids.
BidPrev(b) ==
  /\ bt[b].pc = "prev"
  /\ \E pb \in TopBidChoices({x \in bids : x.user # bt[b].user}) :
       bt' = [bt EXCEPT ![b].pc = "commit", ![b].prev = pb]
  /\ UNCHANGED <<cancel, deletion, dbVars, now, bootTime, other_timers, updVars, tmVars, ea, sat, bidBudget, sweep, check, admin,
                 phase, restore, fix, histVars>>

\* leaving session.begin(): INSERT of the bid, UPDATE of the changed columns.
BidCommit(b) ==
  /\ bt[b].pc = "commit"
  /\ bids' = bids \cup {[id |-> nextBidId, user |-> bt[b].user,
                         amount |-> bt[b].amount, created_at |-> now]}
  /\ nextBidId' = nextBidId + 1
  /\ current_price' = IF bt[b].amount # bt[b].price0 THEN bt[b].amount ELSE current_price
  /\ last_bid_time' = IF bt[b].lbt # bt[b].lbt0 THEN bt[b].lbt ELSE last_bid_time
  /\ ends_at' = IF bt[b].lbt + BID_TIMEOUT_MINUTES # bt[b].ends0
                  THEN bt[b].lbt + BID_TIMEOUT_MINUTES ELSE ends_at
  /\ bt' = [bt EXCEPT ![b].pc = "post", ![b].result = "ok"]
  /\ UNCHANGED <<cancel, deletion, status, ended_at, winner_id, channel_message_id, now, bootTime, other_timers, updVars, tmVars, ea, sat, bidBudget,
                 sweep, check, admin, phase, restore, fix, histVars>>

\* process_bid after a success: the channel refresh, the notifications and
\* the Notification row, then start_auction_timer(auction_id, auction.ends_at).
\* An exception before the call is caught by the enclosing try: the timer is
\* then not re-armed.
BidPost(b) ==
  /\ bt[b].pc = "post"
  /\ \E fails \in BOOLEAN :
       IF fails
         THEN /\ bt' = [bt EXCEPT ![b].pc = "done"]
              /\ UNCHANGED sat
         ELSE /\ bt' = [bt EXCEPT ![b].pc = "sched"]
              /\ sat' = [sat EXCEPT ![Bidder(b)] =
                           [pc |-> "lock", ends |-> bt[b].lbt + BID_TIMEOUT_MINUTES]]
  /\ UNCHANGED <<cancel, deletion, dbVars, now, bootTime, other_timers, updVars, tmVars, ea, bidBudget, sweep, check, admin,
                 phase, restore, fix, histVars>>

\* start_auction_timer has returned; force_update_auction; callback.answer.
BidSchedReturn(b) ==
  /\ bt[b].pc = "sched"
  /\ sat[Bidder(b)].pc = "idle"
  /\ bt' = [bt EXCEPT ![b].pc = "done"]
  /\ UNCHANGED <<cancel, deletion, dbVars, now, bootTime, other_timers, updVars, tmVars, ea, sat, bidBudget, sweep, check, admin,
                 phase, restore, fix, histVars>>

\* A storage exception at an await inside the transaction (a SELECT or the
\* commit): get_db rolls back, nothing is written; `except Exception`: before
\* the last attempt sleep and `continue`, on the last attempt return the
\* error outcome.
LastAttempt_oneMore(attempt) == ~(attempt < max_retries)

LastAttempt(attempt) == ~(attempt < max_retries - 1)

\* BidFail without the rollback: the INSERT of the bid stays
BidFail_noRollback(b) ==
  /\ bt[b].pc \in {"top", "prev", "commit"}
  /\ bt' = [bt EXCEPT ![b] =
              IF LastAttempt(@.attempt)
                THEN [@ EXCEPT !.pc = "done", !.result = "error"]
                ELSE [@ EXCEPT !.pc = "retry", !.attempt = @ + 1]]
  /\ bids' = IF bt[b].pc = "commit"
               THEN bids \cup {[id |-> nextBidId, user |-> bt[b].user,
                                amount |-> bt[b].amount, created_at |-> now]}
               ELSE bids
  /\ nextBidId' = IF bt[b].pc = "commit" THEN nextBidId + 1 ELSE nextBidId
  /\ UNCHANGED <<cancel, deletion, status, current_price, last_bid_time, ends_at, ended_at, winner_id,
                 channel_message_id, now, bootTime, other_timers, updVars, tmVars, ea, sat, bidBudget, sweep,
                 check, admin, phase, restore, fix, histVars>>

BidFail(b) ==
  /\ bt[b].pc \in {"top", "prev", "commit"}
  /\ bt' = [bt EXCEPT ![b] =
              IF LastAttempt(@.attempt)
                THEN [@ EXCEPT !.pc = "done", !.result = "error"]
                ELSE [@ EXCEPT !.pc = "retry", !.attempt = @ + 1]]
  /\ UNCHANGED <<cancel, deletion, dbVars, now, bootTime, other_timers, updVars, tmVars, ea, sat, bidBudget, sweep, check, admin,
                 phase, restore, fix, histVars>>

\* the next attempt, a new session: the SELECT of the auction, the SELECT of
\* the user and the minimum-bid check again
BidRetry(b) ==
  /\ bt[b].pc = "retry"
  /\ bt' = [bt EXCEPT ![b] =
       IF status # "active"
         THEN [@ EXCEPT !.pc = "done", !.result = "not_found"]
       ELSE IF @.user \notin ConfirmedUsers
         THEN [@ EXCEPT !.pc = "done", !.result = "not_confirmed"]
       ELSE IF BelowMinimum(@.amount, current_price)
         THEN [@ EXCEPT !.pc = "done", !.result = "min_bid"]
       ELSE [@ EXCEPT !.pc = "top", !.price0 = current_price,
                      !.lbt0 = last_bid_time, !.ends0 = ends_at]]
  /\ UNCHANGED <<cancel, deletion, dbVars, now, bootTime, other_timers, updVars, tmVars, ea, sat, bidBudget, sweep, check, admin,
                 phase, restore, fix, histVars>>

\* the handler has answered the callback
BidReturn(b) ==
  /\ bt[b].pc = "done"
  /\ bt' = [bt EXCEPT ![b] = IdleBid]
  /\ UNCHANGED <<cancel, deletion, dbVars, now, bootTime, other_timers, updVars, tmVars, ea, sat, bidBudget, sweep, check, admin,
                 phase, restore, fix, histVars>>

\* ---- AuctionTimerManager.check_and_complete_expired_auctions -------------
\* SELECT of the auctions WHERE status == 'active' AND ends_at <= now, then
\* _end_auction for each (periodic_check runs it every 30 s).
SweepFinds_ended == status = "ended" /\ ends_at <= now

SweepFinds == status = "active" /\ ends_at <= now

SweepList ==
  /\ phase \in {"restore", "polling"}
  /\ sweep = "idle"
  /\ SweepFinds
  /\ sweep' = "ending"
  /\ ea' = [ea EXCEPT ![Sweep].pc = "load"]
  /\ UNCHANGED <<cancel, deletion, dbVars, now, bootTime, other_timers, updVars, tmVars, sat, bt, bidBudget, check, admin, phase,
                 restore, fix, histVars>>

SweepReturn ==
  /\ sweep = "ending"
  /\ ea[Sweep].pc = "done"
  /\ sweep' = "idle"
  /\ ea' = [ea EXCEPT ![Sweep] = IdleEnd]
  /\ UNCHANGED <<cancel, deletion, dbVars, now, bootTime, other_timers, updVars, tmVars, sat, bt, bidBudget, check, admin, phase,
                 restore, fix, histVars>>

\* ---- PeriodicUpdater._check_timers ---------------------------------------
\* SELECT of the auctions WHERE status == 'active' AND ends_at > now; one
\* whose id is not in active_timers gets start_auction_timer(id, ends_at).
CheckFinds == status = "active" /\ ends_at > now /\ active_timers = 0

CheckTimers ==
  /\ phase = "polling"
  /\ check = "idle"
  /\ CheckFinds
  /\ check' = "sched"
  /\ sat' = [sat EXCEPT ![Check] = [pc |-> "lock", ends |-> ends_at]]
  /\ UNCHANGED <<cancel, deletion, dbVars, now, bootTime, other_timers, updVars, tmVars, ea, bt, bidBudget, sweep, admin, phase,
                 restore, fix, histVars>>

CheckReturn ==
  /\ check = "sched"
  /\ sat[Check].pc = "idle"
  /\ check' = "idle"
  /\ UNCHANGED <<cancel, deletion, dbVars, now, bootTime, other_timers, updVars, tmVars, ea, sat, bt, bidBudget, sweep, admin,
                 phase, restore, fix, histVars>>

\* ---- handlers/admin.py: admin_end_auction (EndEarly) ---------------------
Admin == <<"admin", 0>>

\* SELECT of the auction by id; `status != 'active'`: answer and return.
\* Otherwise status, ended_at are set on the loaded object.
AdminLoad ==
  /\ phase = "polling"
  /\ admin.pc = "idle"
  /\ status = "active"
  /\ admin' = [IdleJob EXCEPT !.pc = "pick", !.price0 = current_price, !.endedAt = now]
  /\ UNCHANGED <<cancel, deletion, dbVars, now, bootTime, other_timers, updVars, tmVars, ea, sat, bt, bidBudget, sweep, check,
                 phase, restore, fix, histVars>>

\* SELECT of the winning bid.
AdminPick ==
  /\ admin.pc = "pick"
  /\ \E wb \in TopBidChoices(bids) :
       admin' = [admin EXCEPT !.pc = "commit", !.wb = wb]
  /\ UNCHANGED <<cancel, deletion, dbVars, now, bootTime, other_timers, updVars, tmVars, ea, sat, bt, bidBudget, sweep, check,
                 phase, restore, fix, histVars>>

\* leaving session.begin(): the UPDATE.
AdminCommit ==
  /\ admin.pc = "commit"
  /\ status' = "ended"
  /\ ended_at' = admin.endedAt
  /\ winner_id' = IF admin.wb # NoBid THEN admin.wb.user ELSE winner_id
  /\ current_price' = IF admin.wb # NoBid /\ admin.wb.amount # admin.price0
                        THEN admin.wb.amount ELSE current_price
  /\ closeCount' = closeCount + 1
  /\ closedBy' = Admin
  /\ admin' = [admin EXCEPT !.pc = "tell"]
  /\ UNCHANGED <<cancel, deletion, last_bid_time, ends_at, bids, nextBidId, channel_message_id, now, bootTime, other_timers, updVars, tmVars, ea,
                 sat, bt, bidBudget, sweep, check, phase, restore, fix,
                 notified, announced>>

\* the channel edit, send_winner_notification for the winner, then
\* `if auction_id in active_timers: active_timers[auction_id].cancel()`.
AdminTell ==
  /\ admin.pc = "tell"
  /\ \E ok \in BOOLEAN : announced' = Announce(ok)
  /\ notified' = IF admin.wb # NoBid THEN Append(notified, admin.wb.user)
                                     ELSE notified
  /\ tasks' = CancelledTasks(active_timers)
  /\ ea' = CancelledEa(active_timers)
  /\ admin' = IdleJob
  /\ UNCHANGED <<cancel, deletion, dbVars, now, bootTime, other_timers, updVars, active_timers, lock, botSet, sat, bt, bidBudget,
                 sweep, check, phase, restore, fix, closeCount, closedBy>>

\* ---- handlers/admin.py: process_step_price (auction creation) -----------
\* Auction(... current_price=start_price, status='active',
\*         ends_at=utcnow() + timedelta(minutes=BID_TIMEOUT_MINUTES)) is
\* built and added to the session; last_bid_time is not given.
CreateBuild ==
  /\ phase = "polling"
  /\ admin.pc = "idle"
  /\ status = "deleted"
  /\ admin' = [IdleJob EXCEPT !.pc = "insert", !.ends = now + BID_TIMEOUT_MINUTES]
  /\ UNCHANGED <<cancel, deletion, dbVars, now, bootTime, other_timers, updVars, tmVars, ea, sat,
                 bt, bidBudget, sweep, check, phase, restore, fix, histVars>>

\* leaving session.begin(): the INSERT; the column defaults last_bid_time
\* and created_at are utcnow() evaluated when the statement is executed.
CreateInsert ==
  /\ admin.pc = "insert"
  /\ status' = "active"
  /\ current_price' = StartPrice
  /\ last_bid_time' = now
  /\ ends_at' = admin.ends
  /\ ended_at' = 0
  /\ winner_id' = NoUser
  /\ channel_message_id' = 0
  /\ bids' = {}
  /\ admin' = [admin EXCEPT !.pc = "arm"]
  /\ UNCHANGED <<cancel, deletion, nextBidId, now, bootTime, other_timers, updVars, tmVars, ea, sat,
                 bt, bidBudget, sweep, check, phase, restore, fix, histVars>>

\* SELECT of the new row; asyncio.create_task(start_auction_timer(id,
\* auction.ends_at)): the call runs as a task of its own.
CreateArm ==
  /\ admin.pc = "arm"
  /\ sat[Creator].pc = "idle"
  /\ sat' = [sat EXCEPT ![Creator] = [pc |-> "lock", ends |-> ends_at]]
  /\ admin' = [admin EXCEPT !.pc = "publish"]
  /\ UNCHANGED <<cancel, deletion, dbVars, now, bootTime, other_timers, updVars, tmVars, ea,
                 bt, bidBudget, sweep, check, phase, restore, fix, histVars>>

\* the post is sent to the channel and its message id stored in a second
\* transaction; a failure of the send is caught and the auction stays
\* without a channel post.
CreatePublish ==
  /\ admin.pc = "publish"
  /\ \E sent \in BOOLEAN :
       channel_message_id' = IF sent /\ status # "deleted" THEN 1 ELSE channel_message_id
  /\ admin' = IdleJob
  /\ UNCHANGED <<cancel, deletion, status, current_price, last_bid_time, ends_at, ended_at,
                 winner_id, bids, nextBidId, now, bootTime, other_timers, updVars, tmVars,
                 ea, sat, bt, bidBudget, sweep, check, phase, restore, fix, histVars>>

CreateStep == CreateBuild \/ CreateInsert \/ CreateArm \/ CreatePublish

\* ---- bot.py: main, the startup order ------------------------------------
\* check_expired_auctions_on_startup: check_and_complete_expired_auctions
\* runs before set_bot.
StartupCheck ==
  /\ phase = "check"
  /\ IF SweepFinds
       THEN /\ sweep' = "ending"
            /\ ea' = [ea EXCEPT ![Sweep].pc = "load"]
            /\ phase' = "checking"
       ELSE /\ phase' = "fix"
            /\ UNCHANGED <<sweep, ea>>
  /\ UNCHANGED <<cancel, deletion, dbVars, now, bootTime, other_timers, updVars, tmVars, sat, bt, bidBudget, check,
                 admin, restore, fix, histVars>>

StartupCheckReturn ==
  /\ phase = "checking"
  /\ ea[Sweep].pc = "done"
  /\ sweep' = "idle"
  /\ ea' = [ea EXCEPT ![Sweep] = IdleEnd]
  /\ phase' = "fix"
  /\ UNCHANGED <<cancel, deletion, dbVars, now, bootTime, other_timers, updVars, tmVars, sat, bt, bidBudget, check,
                 admin, restore, fix, histVars>>

\* ---- ChannelUpdater.update_expired_messages (check_and_fix_all_messages) -
Fix == <<"fix", 0>>

\* SELECT of the auctions WHERE status == 'active' AND ends_at <= now AND
\* channel_message_id IS NOT NULL; status, ended_at = now set on the object.
FixFinds == status = "active" /\ ends_at <= now /\ channel_message_id # 0

FixList ==
  /\ phase = "fix"
  /\ fix.pc = "idle"
  /\ IF FixFinds
       THEN /\ fix' = [IdleJob EXCEPT !.pc = "pick", !.price0 = current_price, !.endedAt = now]
            /\ UNCHANGED phase
       ELSE /\ phase' = "setbot"
            /\ UNCHANGED fix
  /\ UNCHANGED <<cancel, deletion, dbVars, now, bootTime, other_timers, updVars, tmVars, ea, sat, bt, bidBudget, sweep,
                 check, admin, restore, histVars>>

\* SELECT of the winning bid.
FixPick ==
  /\ fix.pc = "pick"
  /\ \E wb \in TopBidChoices(bids) : fix' = [fix EXCEPT !.pc = "tell", !.wb = wb]
  /\ UNCHANGED <<cancel, deletion, dbVars, now, bootTime, other_timers, updVars, tmVars, ea, sat, bt, bidBudget, sweep,
                 check, admin, phase, restore, histVars>>

\* _update_single_message with the ended form, before the commit.
FixTell ==
  /\ fix.pc = "tell"
  /\ \E ok \in BOOLEAN : announced' = Announce(ok)
  /\ fix' = [fix EXCEPT !.pc = "commit"]
  /\ UNCHANGED <<cancel, deletion, dbVars, now, bootTime, other_timers, updVars, tmVars, ea, sat, bt, bidBudget, sweep,
                 check, admin, phase, restore, closeCount, closedBy, notified>>

\* session.commit(); no winner notification on this path.
FixCommit ==
  /\ fix.pc = "commit"
  /\ status' = "ended"
  /\ ended_at' = fix.endedAt
  /\ winner_id' = IF fix.wb # NoBid THEN fix.wb.user ELSE winner_id
  /\ current_price' = IF fix.wb # NoBid /\ fix.wb.amount # fix.price0
                        THEN fix.wb.amount ELSE current_price
  /\ closeCount' = closeCount + 1
  /\ closedBy' = Fix
  /\ fix' = IdleJob
  /\ phase' = "setbot"
  /\ UNCHANGED <<cancel, deletion, last_bid_time, ends_at, bids, nextBidId, channel_message_id,
                 now, bootTime, other_timers, updVars, tmVars, ea, sat, bt, bidBudget, sweep, check,
                 admin, restore, notified, announced>>

\* periodic_updater.set_bot, auction_timer_manager.set_bot,
\* asyncio.create_task(auction_timer_manager.periodic_check())
StartupSetBot ==
  /\ phase = "setbot"
  /\ botSet' = TRUE
  /\ phase' = "restore"
  /\ UNCHANGED <<cancel, deletion, dbVars, now, bootTime, other_timers, updVars, active_timers, tasks, lock, ea, sat,
                 bt, bidBudget, sweep, check, admin, restore, fix, histVars>>

\* ---- AuctionTimerManager.restore_timers_improved -------------------------
\* SELECT of the auctions WHERE status == 'active'.
RestoreFinds_none == FALSE

RestoreFinds == status = "active"

RestoreList ==
  /\ phase = "restore"
  /\ restore.pc = "idle"
  /\ IF RestoreFinds
       THEN /\ restore' = [IdleJob EXCEPT !.pc = "decide", !.price0 = current_price,
                                          !.ends = ends_at]
            /\ UNCHANGED phase
       ELSE /\ phase' = "polling"
            /\ UNCHANGED restore
  /\ UNCHANGED <<cancel, deletion, dbVars, now, bootTime, other_timers, updVars, tmVars, ea, sat, bt, bidBudget, sweep,
                 check, admin, fix, histVars>>

\* time_diff = (end_time - now).total_seconds(); `time_diff > 0` restores the
\* timer, otherwise the auction is ended here.
RestoreExpired(end_time, t) == ~(end_time - t > 0)

\* the deadline restore hands to start_auction_timer
RestoreDeadline_extended(end_time) == end_time + BID_TIMEOUT_MINUTES

RestoreDeadline(end_time) == end_time

RestoreDecide ==
  /\ restore.pc = "decide"
  /\ IF RestoreExpired(restore.ends, now)
       THEN /\ restore' = [restore EXCEPT !.pc = "pick", !.endedAt = now]
            /\ UNCHANGED sat
       ELSE /\ restore' = [restore EXCEPT !.pc = "sched"]
            /\ sat' = [sat EXCEPT ![Restore] =
                         [pc |-> "lock", ends |-> RestoreDeadline(restore.ends)]]
  /\ UNCHANGED <<cancel, deletion, dbVars, now, bootTime, other_timers, updVars, tmVars, ea, bt, bidBudget, sweep,
                 check, admin, phase, fix, histVars>>

\* SELECT of the winning bid.
RestorePick ==
  /\ restore.pc = "pick"
  /\ \E wb \in TopBidChoices(bids) : restore' = [restore EXCEPT !.pc = "commit", !.wb = wb]
  /\ UNCHANGED <<cancel, deletion, dbVars, now, bootTime, other_timers, updVars, tmVars, ea, sat, bt, bidBudget, sweep,
                 check, admin, phase, fix, histVars>>

\* session.commit()
RestoreCommit ==
  /\ restore.pc = "commit"
  /\ status' = "ended"
  /\ ended_at' = restore.endedAt
  /\ winner_id' = IF restore.wb # NoBid THEN restore.wb.user ELSE winner_id
  /\ current_price' = IF restore.wb # NoBid /\ restore.wb.amount # restore.price0
                        THEN restore.wb.amount ELSE current_price
  /\ closeCount' = closeCount + 1
  /\ closedBy' = Restore
  /\ restore' = [restore EXCEPT !.pc = "tell"]
  /\ UNCHANGED <<cancel, deletion, last_bid_time, ends_at, bids, nextBidId, channel_message_id,
                 now, bootTime, other_timers, updVars, tmVars, ea, sat, bt, bidBudget, sweep, check,
                 admin, phase, fix, notified, announced>>

\* _update_expired_auction: the channel edit only, no winner notification;
\* the loop ends, main goes on to periodic_updater.start and start_polling.
RestoreTell ==
  /\ restore.pc = "tell"
  /\ \E ok \in BOOLEAN : announced' = Announce(ok)
  /\ restore' = IdleJob
  /\ phase' = "polling"
  /\ UNCHANGED <<cancel, deletion, dbVars, now, bootTime, other_timers, updVars, tmVars, ea, sat, bt, bidBudget, sweep,
                 check, admin, fix, closeCount, closedBy, notified>>

RestoreSchedReturn ==
  /\ restore.pc = "sched"
  /\ sat[Restore].pc = "idle"
  /\ restore' = IdleJob
  /\ phase' = "polling"
  /\ UNCHANGED <<cancel, deletion, dbVars, now, bootTime, other_timers, updVars, tmVars, ea, sat, bt, bidBudget, sweep,
                 check, admin, fix, histVars>>

\* ---- handlers/user.py: cmd_cancel_bid, cancel_bid_confirm (CancelLastBid) -
\* the user's bids on the auction if it is Active, most recent first:
\* select(Bid).join(Auction).where(user, status == 'active')
\*   .order_by(desc(Bid.created_at)).limit(1)
\* Bid.created_at is utcnow() at the INSERT, in microseconds: two bids never
\* carry the same value.  Within one tick of the model clock the order of the
\* timestamps is the order of the inserts, which is the order of the ids.
Later(y, x) ==
  \/ y.created_at > x.created_at
  \/ y.created_at = x.created_at /\ y.id > x.id

LastBids(u) ==
  IF status # "active" THEN {}
  ELSE {x \in bids : x.user = u /\ \A y \in bids : y.user = u => ~Later(y, x)}

\* /cancel_bid: the SELECT of the user's last bid; none: answer and return.
CancelFind(u) ==
  /\ phase = "polling"
  /\ cancel.pc = "idle"
  /\ \E lb \in LastBids(u) :
       cancel' = [IdleCancel EXCEPT !.pc = "later", !.user = u, !.bid = lb]
  /\ UNCHANGED <<dbVars, now, bootTime, other_timers, updVars, tmVars, ea, sat, procVars, histVars, deletion>>

\* count of the auction's bids with created_at > last_bid.created_at
LaterCount(x) == Cardinality({y \in bids : Later(y, x)})

\* `later_count > 0`: refuse; otherwise the confirmation keyboard carrying
\* the bid id is sent.
CancelCheck ==
  /\ cancel.pc = "later"
  /\ cancel' = IF LaterCount(cancel.bid) > 0 THEN IdleCancel
                                             ELSE [cancel EXCEPT !.pc = "prompted"]
  /\ UNCHANGED <<dbVars, now, bootTime, other_timers, updVars, tmVars, ea, sat, procVars, histVars, deletion>>

\* cancel_bid_confirm: SELECT of the bid by id with its auction and user; no
\* row, another user's bid, auction not active: answer and return.  Otherwise
\* session.delete(bid).
CancelConfirm ==
  /\ cancel.pc = "prompted"
  /\ cancel' =
       IF \E x \in bids : x.id = cancel.bid.id /\ x.user = cancel.user /\ status = "active"
         THEN [cancel EXCEPT !.pc = "max", !.price0 = current_price,
                             !.lbt0 = last_bid_time, !.ends0 = ends_at]
         ELSE IdleCancel
  /\ UNCHANGED <<dbVars, now, bootTime, other_timers, updVars, tmVars, ea, sat, procVars, histVars, deletion>>

\* SELECT of the auction's highest bid.  The session does not autoflush
\* (database.py:31), so the pending delete has not reached the database and
\* the query ranges over the stored bids, the cancelled one included.
\* current_price, last_bid_time, ends_at are set from the bid found, or from
\* start_price and the auction's created_at when there is none.
CancelRows == bids

CancelMax ==
  /\ cancel.pc = "max"
  /\ \E nm \in TopBidChoices(CancelRows) :
       cancel' = IF nm # NoBid
                   THEN [cancel EXCEPT !.pc = "commit", !.price = nm.amount,
                                       !.lbt = nm.created_at,
                                       !.ends = nm.created_at + BID_TIMEOUT_MINUTES]
                   ELSE [cancel EXCEPT !.pc = "commit", !.price = StartPrice,
                                       !.lbt = 0, !.ends = BID_TIMEOUT_MINUTES]
  /\ UNCHANGED <<dbVars, now, bootTime, other_timers, updVars, tmVars, ea, sat, procVars, histVars, deletion>>

\* leaving session.begin(): DELETE of the bid, UPDATE of the changed columns;
\* then the channel post is refreshed.  start_auction_timer is not called.
CancelCommit ==
  /\ cancel.pc = "commit"
  /\ bids' = {x \in bids : x.id # cancel.bid.id}
  /\ current_price' = IF cancel.price # cancel.price0 THEN cancel.price ELSE current_price
  /\ last_bid_time' = IF cancel.lbt # cancel.lbt0 THEN cancel.lbt ELSE last_bid_time
  /\ ends_at' = IF cancel.ends # cancel.ends0 THEN cancel.ends ELSE ends_at
  /\ cancel' = IdleCancel
  /\ UNCHANGED <<status, ended_at, winner_id, channel_message_id, nextBidId, now,
                 bootTime, other_timers, updVars, tmVars, ea, sat, procVars, histVars, deletion>>

CancelStep ==
  \/ \E u \in Users : CancelFind(u)
  \/ CancelCheck \/ CancelConfirm \/ CancelMax \/ CancelCommit

\* ---- handlers/admin.py: admin_delete_auction (DeleteAuction) -------------
\* The Auction row is gone once the delete has committed: status "deleted"
\* stands for "no row with this id", and the other columns mean nothing then.
\* SELECT of the auction by id; no row: "not found", return.  No other
\* condition is tested before the DELETE statements are issued.
DeleteLoadFinds == status # "deleted"

DeleteLoad ==
  /\ phase = "polling"
  /\ deletion = "idle"
  /\ DeleteLoadFinds
  /\ deletion' = "commit"
  /\ UNCHANGED <<cancel, dbVars, now, bootTime, other_timers, updVars, tmVars, ea, sat, procVars, histVars>>

\* leaving session.begin(): DELETE of the auction's notifications,
\* subscriptions, bids and of the auction itself.
DeleteCommit ==
  /\ deletion = "commit"
  /\ status' = "deleted"
  /\ bids' = {}
  /\ deletion' = "unregister"
  /\ UNCHANGED <<cancel, current_price, last_bid_time, ends_at, ended_at, winner_id,
                 channel_message_id, nextBidId, now, bootTime, other_timers, updVars, tmVars, ea, sat,
                 procVars, histVars>>

\* `if auction_id in active_timers: active_timers[auction_id].cancel();
\*  del active_timers[auction_id]`, without the lock; then the channel post
\* is deleted.
DeleteUnregister ==
  /\ deletion = "unregister"
  /\ tasks' = CancelledTasks(active_timers)
  /\ ea' = CancelledEa(active_timers)
  /\ active_timers' = 0
  /\ deletion' = "done"
  /\ UNCHANGED <<cancel, dbVars, now, bootTime, other_timers, updVars, lock, botSet, sat, procVars, histVars>>

DeleteStep == DeleteLoad \/ DeleteCommit \/ DeleteUnregister

\* _end_auction reaching session.commit() after the row was deleted: the
\* UPDATE matches no row, the ORM raises StaleDataError, get_db rolls back
\* and `except Exception` in _end_auction logs it; nothing is written and
\* nobody is notified.
EndCommitGone(c) ==
  /\ ea[c].pc = "commit"
  /\ status = "deleted"
  /\ ea' = [ea EXCEPT ![c].pc = "done"]
  /\ UNCHANGED <<cancel, deletion, dbVars, now, bootTime, other_timers, updVars, tmVars, sat, procVars, histVars>>

\* ---- AuctionTimerManager.stop_all_timers (StopAll) ----------------------
\* called from the finally block of main() once polling has ended:
\* self._stopping = True, then the lock is awaited.
StopBegin ==
  /\ phase = "polling"
  /\ phase' = "stopping"
  /\ UNCHANGED <<cancel, deletion, dbVars, now, bootTime, other_timers, updVars, tmVars, ea, sat, bt, bidBudget,
                 sweep, check, admin, restore, fix, histVars>>

\* self.active_timers.clear()
StopRegistry_kept == active_timers

StopRegistry == 0

\* async with self.lock: task.cancel() for every entry of active_timers,
\* then the registry is cleared; the block has no await, the lock is
\* released as it ends.
StopClear ==
  /\ phase = "stopping"
  /\ lock = Free
  /\ tasks' = CancelledTasks(active_timers)
  /\ ea' = CancelledEa(active_timers)
  /\ active_timers' = StopRegistry
  /\ other_timers' = "none"
  /\ phase' = "stopped"
  /\ UNCHANGED <<cancel, deletion, dbVars, now, bootTime, updVars, lock, botSet, sat, bt, bidBudget,
                 sweep, check, admin, restore, fix, histVars>>

StopStep == StopBegin \/ StopClear

\* ---- the running bot: an auction created by the admin, its timer armed ---
LiveInit(bs, budget) ==
  /\ status = "active"
  /\ bids = bs
  /\ current_price = IF bs = {} THEN StartPrice
                     ELSE (CHOOSE x \in TopBids(bs) : TRUE).amount
  /\ last_bid_time = 0
  /\ ends_at = BID_TIMEOUT_MINUTES
  /\ ended_at = 0
  /\ winner_id = NoUser
  /\ channel_message_id = 1
  /\ nextBidId = Cardinality(bs) + 1
  /\ now = 0
  /\ bootTime = 0
  /\ other_timers = "sleep"
  /\ UpdInit
  /\ active_timers = 1
  /\ tasks = [t \in TimerTasks |->
                IF t = 1 THEN [pc |-> "sleep", deadline |-> BID_TIMEOUT_MINUTES]
                         ELSE UnusedTask]
  /\ lock = Free
  /\ botSet = TRUE
  /\ ea = [c \in Closers |-> IdleEnd]
  /\ sat = [c \in Callers |-> IdleSat]
  /\ bt = [b \in BidTasks |-> IdleBid]
  /\ bidBudget = budget
  /\ sweep = "idle"
  /\ check = "idle"
  /\ admin = IdleJob
  /\ phase = "polling"
  /\ restore = IdleJob
  /\ fix = IdleJob
  /\ closeCount = 0
  /\ closedBy = Free
  /\ notified = <<>>
  /\ announced = 0
  /\ cancel = IdleCancel
  /\ deletion = "idle"

\* MaxBidCalls PlaceBid callbacks may arrive
InitBids == LiveInit({}, MaxBidCalls)

\* one PlaceBid callback may arrive
Init == LiveInit({}, 1)

EndStep == \E c \in Closers : EndLoad(c) \/ EndPick(c) \/ EndCommit(c) \/ EndTell(c)

TimerStep == \E t \in TimerTasks : TimerFire(t) \/ TimerEndReturn(t) \/ TimerFinally(t)

SchedStep == \E c \in Callers : SchedAcquire(c) \/ SchedCheck(c) \/ SchedEndReturn(c)

BidStep ==
  \/ \E b \in BidTasks, u \in Users, a \in Amounts : BidRead(b, u, a)
  \/ \E b \in BidTasks : BidTop(b) \/ BidPrev(b) \/ BidCommit(b) \/ BidPost(b)
                           \/ BidSchedReturn(b) \/ BidReturn(b)

SweepStep == SweepList \/ SweepReturn

CheckStep == CheckTimers \/ CheckReturn

AdminStep == AdminLoad \/ AdminPick \/ AdminCommit \/ AdminTell

Next ==
  \/ BidStep
  \/ EndStep
  \/ TimerStep
  \/ SchedStep
  \/ CheckStep
  \/ Tick

Spec == Init /\ [][Next]_vars

\* ---- bidding only: handlers running concurrently, the clock standing ----
NextBid ==
  \/ \E b \in BidTasks, u \in Users, a \in Amounts : BidRead(b, u, a)
  \/ \E b \in BidTasks : BidTop(b) \/ BidPrev(b) \/ BidCommit(b) \/ BidPost(b)
                           \/ BidSchedReturn(b) \/ BidReturn(b)
  \/ \E c \in Callers : SchedAcquire(c) \/ SchedCheck(c)
  \/ \E t \in TimerTasks : TimerFinally(t)

SpecBid == InitBids /\ [][NextBid]_vars

\* ---- bids arriving one at a time, timers, orphan check, running clock ----
NextTimer ==
  \/ \E u \in Users, a \in Amounts : BidRead(1, u, a)
  \/ BidTop(1) \/ BidPrev(1) \/ BidCommit(1) \/ BidPost(1)
  \/ BidSchedReturn(1) \/ BidReturn(1)
  \/ EndStep
  \/ TimerStep
  \/ SchedStep
  \/ CheckStep
  \/ Tick

SpecTimer == InitBids /\ [][NextTimer]_vars

\* ---- one bid, timers, EndEarly ---------------------------------------------
NextClose ==
  \/ \E u \in Users, a \in Amounts : BidRead(1, u, a)
  \/ BidTop(1) \/ BidPrev(1) \/ BidCommit(1) \/ BidPost(1)
  \/ BidSchedReturn(1) \/ BidReturn(1)
  \/ EndStep
  \/ TimerStep
  \/ SchedStep
  \/ AdminStep
  \/ Tick

\* the auction already has a leading bid; one more PlaceBid call may arrive
InitClose ==
  LiveInit({[id |-> 1, user |-> "u1", amount |-> StartPrice + StepPrice, created_at |-> 0]}, 1)

SpecClose == InitClose /\ [][NextClose]_vars

\* ---- the closure paths racing: timer, expired-auction sweep, EndEarly ------
InitIdem ==
  LiveInit({[id |-> 1, user |-> "u1", amount |-> StartPrice + StepPrice, created_at |-> 0]}, 0)

NextIdem ==
  \/ EndStep
  \/ TimerStep
  \/ SweepStep
  \/ AdminStep
  \/ Tick

SpecIdem == InitIdem /\ [][NextIdem]_vars

\* ---- a process start on a persisted Active auction ------------------------
\* the persisted ledgers the model starts from: none, one bid, two bids
PersistedBids ==
  { {},
    {[id |-> 1, user |-> "u1", amount |-> StartPrice + StepPrice, created_at |-> 0]},
    {[id |-> 1, user |-> "u1", amount |-> StartPrice + StepPrice, created_at |-> 0 - 1],
     [id |-> 2, user |-> "u2", amount |-> StartPrice + 2 * StepPrice, created_at |-> 0]} }

PersistedPrice(bs) == IF bs = {} THEN StartPrice
                      ELSE (CHOOSE b \in TopBids(bs) : TRUE).amount

BootNow == 1

BootInit(budget) ==
  /\ status = "active"
  /\ bids \in PersistedBids
  /\ current_price = PersistedPrice(bids)
  /\ ends_at \in 0..MaxTime
  /\ last_bid_time = ends_at - BID_TIMEOUT_MINUTES
  /\ ended_at = 0
  /\ winner_id = NoUser
  /\ channel_message_id \in {0, 1}
  /\ nextBidId = Cardinality(bids) + 1
  /\ now = BootNow
  /\ bootTime = BootNow
  /\ other_timers = "none"
  /\ UpdInit
  /\ active_timers = 0
  /\ tasks = [t \in TimerTasks |-> UnusedTask]
  /\ lock = Free
  /\ botSet = FALSE
  /\ ea = [c \in Closers |-> IdleEnd]
  /\ sat = [c \in Callers |-> IdleSat]
  /\ bt = [b \in BidTasks |-> IdleBid]
  /\ bidBudget = budget
  /\ sweep = "idle"
  /\ check = "idle"
  /\ admin = IdleJob
  /\ phase = "check"
  /\ restore = IdleJob
  /\ fix = IdleJob
  /\ closeCount = 0
  /\ closedBy = Free
  /\ notified = <<>>
  /\ announced = 0
  /\ cancel = IdleCancel
  /\ deletion = "idle"

InitStartup == BootInit(0)

NextStartup ==
  \/ StartupCheck \/ StartupCheckReturn
  \/ FixList \/ FixPick \/ FixTell \/ FixCommit
  \/ StartupSetBot
  \/ RestoreList \/ RestoreDecide \/ RestorePick \/ RestoreCommit
  \/ RestoreTell \/ RestoreSchedReturn
  \/ SweepStep
  \/ EndStep
  \/ SchedStep
  \/ TimerStep
  \/ Tick

SpecStartup == InitStartup /\ [][NextStartup]_vars

\* ==== properties ==========================================================

\* a PlaceBid call commits in this step
BidAccepted == bids' # bids

NewBids == bids' \ bids

\* C3  Monotonic price: a step that accepts a bid never lowers current_price,
\* and the accepted amount is at least the current_price of the moment
\* before the acceptance plus the step.
C3_MonotonicPrice ==
  [][BidAccepted =>
       /\ current_price' >= current_price
       /\ \A nb \in NewBids : nb.amount >= current_price + StepPrice]_vars

\* C4  Concurrent bid race: the price a bid was validated against is the
\* price stored at the moment the bid commits (no bid is accepted on a stale
\* current_price); in particular 110 is never accepted after 120.
C4_NoStaleAcceptance ==
  [][\A b \in BidTasks :
       (bt[b].pc = "commit" /\ bt'[b].pc = "post") => bt[b].price0 = current_price]_vars

\* u holds the top bid: the auction has bids and every bid of maximal amount
\* is u's.
Leads(u, bs) == bs # {} /\ \A tb \in TopBids(bs) : tb.user = u

\* C10  No self-outbid: no bid is accepted from the bidder who holds the top
\* bid at the moment of the acceptance.
C10_NoSelfOutbid ==
  [][BidAccepted => \A nb \in NewBids : ~Leads(nb.user, bids)]_vars

\* the auction is closed in this step by a timer task
ClosedByTimer == status = "active" /\ status' = "ended" /\ closedBy' \in {Timer(t) : t \in TimerTasks}

\* C1  Deadline extension: a bid accepted at T stores ends_at = T + timeout,
\* and a timer task never ends the auction before the stored ends_at has
\* elapsed.
C1_DeadlineExtension ==
  [][/\ \A b \in BidTasks : (bt[b].pc = "commit" /\ bt'[b].pc = "post")
                              => ends_at' = bt[b].lbt + BID_TIMEOUT_MINUTES
     /\ ClosedByTimer => now >= ends_at]_vars

\* tasks able to fire Close: sleeping until the deadline or inside _end_auction
LiveTasks == {t \in TimerTasks : tasks[t].pc \in {"sleep", "closing"}}

\* C2  At most one live expiration task exists for the auction at any instant.
C2_OneLiveTimer == Cardinality(LiveTasks) <= 1

\* the top-ranked bids: highest amount, earliest created_at among equals
TopRanked(bs) == {b \in TopBids(bs) : \A c \in TopBids(bs) : b.created_at <= c.created_at}

\* an Active->Ended write is committed in this step
ClosureCommitted == closeCount' = closeCount + 1

\* C5  Single winner: right after a closure commits, winner_id is the bidder
\* of the top-ranked bid and current_price is its amount; winner_id is null
\* exactly when the auction has no bids.
C5_SingleWinner ==
  [][ClosureCommitted =>
       IF bids' = {} THEN winner_id' = NoUser
       ELSE /\ winner_id' \in {b.user : b \in TopRanked(bids')}
            /\ current_price' \in {b.amount : b \in TopRanked(bids')}]_vars

\* C6  Idempotent closure: an _end_auction call that reaches its SELECT when
\* the auction is already Ended returns there; it changes neither status,
\* ended_at, winner_id nor current_price and sends no announcement and no
\* winner notification.
C6_IdempotentClosure ==
  [][\A c \in Closers :
       (ea[c].pc = "load" /\ status = "ended" /\ ea'[c].pc \notin {"load", "idle"})
         => /\ ea'[c].pc = "done"
            /\ UNCHANGED <<status, ended_at, winner_id, current_price,
                           notified, announced, closeCount>>]_vars

\* a second Close has returned without committing: another path closed the
\* auction, exactly one closure was committed
C6_SecondCloseSeen ==
  \E c \in Closers :
    /\ ea[c].pc = "done"
    /\ status = "ended"
    /\ closeCount = 1
    /\ closedBy \notin {c, Free}

\* C7  The Active->Ended transition is committed at most once.
C7_AtMostOneClosure == closeCount <= 1

\* no closure path is in flight
ClosureIdle ==
  /\ \A c \in Closers : ea[c].pc = "idle"
  /\ \A c \in Callers : sat[c].pc = "idle"
  /\ admin.pc = "idle"
  /\ restore.pc = "idle"
  /\ fix.pc = "idle"
  /\ sweep = "idle"

Notified == {notified[i] : i \in 1..Len(notified)}

C9_WinnerNotified ==
  (ClosureIdle /\ status = "ended") =>
    /\ winner_id # NoUser => winner_id \in Notified
    /\ bids = {} => notified = <<>>

\* the timer-integrity check's start_auction_timer call arms a task in this step
CheckArms ==
  /\ sat[Check].pc = "check"
  /\ sat'[Check].pc = "idle"
  /\ active_timers' # active_timers

\* C11  Orphan repair: the timer the timer-integrity check gives an Active
\* auction that had no registry entry has the auction's stored ends_at as
\* its deadline.
C11_OrphanRepair ==
  [][CheckArms => tasks'[active_timers'].deadline = ends_at']_vars

\* ---- the running bot with an orphaned auction: Active, no registry entry,
\* no timer task; the periodic sweep, the timer-integrity check, the clock ---
InitMissed ==
  /\ status = "active"
  /\ bids \in PersistedBids
  /\ current_price = PersistedPrice(bids)
  /\ ends_at \in 1..MaxTime
  /\ last_bid_time = ends_at - BID_TIMEOUT_MINUTES
  /\ ended_at = 0
  /\ winner_id = NoUser
  /\ channel_message_id \in {0, 1}
  /\ nextBidId = Cardinality(bids) + 1
  /\ now = 0
  /\ bootTime = 0
  /\ other_timers = "sleep"
  /\ UpdInit
  /\ active_timers = 0
  /\ tasks = [t \in TimerTasks |-> UnusedTask]
  /\ lock = Free
  /\ botSet = TRUE
  /\ ea = [c \in Closers |-> IdleEnd]
  /\ sat = [c \in Callers |-> IdleSat]
  /\ bt = [b \in BidTasks |-> IdleBid]
  /\ bidBudget = 0
  /\ sweep = "idle"
  /\ check = "idle"
  /\ admin = IdleJob
  /\ phase = "polling"
  /\ restore = IdleJob
  /\ fix = IdleJob
  /\ closeCount = 0
  /\ closedBy = Free
  /\ notified = <<>>
  /\ announced = 0
  /\ cancel = IdleCancel
  /\ deletion = "idle"

NextMissed ==
  \/ SweepStep
  \/ EndStep
  \/ CheckStep
  \/ SchedStep
  \/ TimerStep
  \/ Tick

\* the event loop runs every coroutine that is ready: periodic_check wakes
\* every 30 s, and an _end_auction call that is in flight goes on
FairMissed ==
  /\ WF_vars(SweepStep)
  /\ \A c \in Closers : WF_vars(EndLoad(c) \/ EndPick(c) \/ EndCommit(c) \/ EndTell(c))

SpecMissed == InitMissed /\ [][NextMissed]_vars /\ FairMissed

\* C12  Missed-timer detection: an Active auction whose ends_at has passed is
\* eventually closed, whether or not a timer task exists for it.
C12_MissedTimerClosed ==
  (status = "active" /\ ends_at <= now) ~> (status = "ended")

\* the sweep has closed an auction for which no timer task was ever created
C12_SweepClosedOrphan ==
  /\ status = "ended"
  /\ closedBy = Sweep
  /\ \A t \in TimerTasks : tasks[t].pc = "unused"

\* C13  Closure is authoritative regardless of the Announcer: a Close call
\* that starts on an Active auction goes on to the transition (it does not
\* return without it, whether or not the bot is set), and the step that
\* announces and notifies leaves the auction Ended with its winner.
C13_ClosureAuthoritative ==
  [][\A c \in Closers :
       /\ (ea[c].pc = "load" /\ status = "active" /\ ea'[c].pc \notin {"load", "idle"})
            => ea'[c].pc = "pick"
       /\ (ea[c].pc = "tell" /\ ea'[c].pc = "done")
            => (status' = "ended" /\ UNCHANGED <<winner_id, current_price, ended_at>>)]_vars

\* ---- PlaceBid calls one after another on any persisted auction: the
\* handler with the start_auction_timer call it makes, no other coroutine ----
InitOrder ==
  /\ status \in {"active", "ended"}
  /\ bids \in PersistedBids
  /\ current_price = PersistedPrice(bids)
  /\ last_bid_time = 0
  /\ ends_at = BID_TIMEOUT_MINUTES
  /\ ended_at = 0
  /\ winner_id = NoUser
  /\ channel_message_id = 1
  /\ nextBidId = Cardinality(bids) + 1
  /\ now = 0
  /\ bootTime = 0
  /\ other_timers = "sleep"
  /\ UpdInit
  /\ active_timers = 0
  /\ tasks = [t \in TimerTasks |-> UnusedTask]
  /\ lock = Free
  /\ botSet = TRUE
  /\ ea = [c \in Closers |-> IdleEnd]
  /\ sat = [c \in Callers |-> IdleSat]
  /\ bt = [b \in BidTasks |-> IdleBid]
  /\ bidBudget = MaxBidCalls
  /\ sweep = "idle"
  /\ check = "idle"
  /\ admin = IdleJob
  /\ phase = "polling"
  /\ restore = IdleJob
  /\ fix = IdleJob
  /\ closeCount = 0
  /\ closedBy = Free
  /\ notified = <<>>
  /\ announced = 0
  /\ cancel = IdleCancel
  /\ deletion = "idle"

NextOrder ==
  \/ \E u \in Users \cup {Stranger}, a \in Amounts : BidRead(1, u, a)
  \/ BidTop(1) \/ BidPrev(1) \/ BidCommit(1) \/ BidPost(1)
  \/ BidSchedReturn(1) \/ BidReturn(1)
  \/ BidFail(1) \/ BidRetry(1)
  \/ SchedAcquire(Bidder(1)) \/ SchedCheck(Bidder(1)) \/ SchedEndReturn(Bidder(1))
  \/ EndLoad(Bidder(1)) \/ EndPick(Bidder(1)) \/ EndCommit(Bidder(1)) \/ EndTell(Bidder(1))
  \/ Tick

SpecOrder == InitOrder /\ [][NextOrder]_vars

\* the outcome the ordered preconditions prescribe for a call of user u with
\* amount a on the stored auction
Outcome(u, a) ==
  IF status # "active" THEN "not_found"
  ELSE IF u \notin ConfirmedUsers THEN "not_confirmed"
  ELSE IF a < current_price + StepPrice THEN "min_bid"
  ELSE IF Leads(u, bids) THEN "leading"
  ELSE "ok"

\* the call of handler b is decided in this step: rejected or committed
BidDecided(b) ==
  /\ bt[b].pc \in {"idle", "retry", "top", "prev", "commit"}
  /\ bt'[b].pc \in {"done", "post"}
  /\ bt'[b].result # "error"

\* C14  PlaceBid returns the reason of the first failing precondition in the
\* order Active, confirmed bidder, minimum amount, not the leader; the four
\* reasons are distinct; a bid is accepted only when all four hold.
C14_PreconditionOrder ==
  [][\A b \in BidTasks :
       BidDecided(b) => bt'[b].result = Outcome(bt'[b].user, bt'[b].amount)]_vars

\* a call that fails two preconditions (unconfirmed bidder, amount below the
\* minimum) has been rejected with the reason of the earlier one
C14_FirstReasonWins ==
  \E b \in BidTasks :
    /\ bt[b].pc = "done"
    /\ bt[b].result = "not_confirmed"
    /\ status = "active"
    /\ BelowMinimum(bt[b].amount, current_price)

\* process_bid_safe returns in this step (success: the handler goes to "post")
BidSafeReturns(b) ==
  /\ bt[b].pc \in {"idle", "retry", "top", "prev", "commit"}
  /\ bt'[b].pc \in {"done", "post"}

\* C15  Bid atomicity: a PlaceBid call that returns success has, in one step,
\* inserted exactly one Bid row of its bidder and amount and written
\* current_price, last_bid_time and ends_at; a call that returns a failure
\* outcome, and an attempt that is rolled back, leave bids and the auction
\* row unchanged; the ledger changes in no other step of the handler.
C15_BidAtomicity ==
  [][\A b \in BidTasks :
       /\ BidSafeReturns(b) =>
            IF bt'[b].result = "ok"
              THEN /\ \E nb \in bids' :
                        /\ nb \notin bids
                        /\ bids' = bids \cup {nb}
                        /\ nb.user = bt[b].user
                        /\ nb.amount = bt[b].amount
                   /\ current_price' = bt[b].amount
                   /\ last_bid_time' = bt[b].lbt
                   /\ ends_at' = bt[b].lbt + BID_TIMEOUT_MINUTES
                   /\ UNCHANGED <<status, ended_at, winner_id>>
              ELSE UNCHANGED dbVars
       /\ (bt[b].pc # "retry" /\ bt'[b].pc = "retry") => UNCHANGED dbVars
       /\ bids' # bids => \E c \in BidTasks : bt[c].pc = "commit" /\ bt'[c].pc = "post"]_vars

\* a call has committed its bid on an attempt that followed a rolled-back one
C15_CommittedAfterRollback ==
  \E b \in BidTasks : bt[b].pc = "post" /\ bt[b].attempt > 0 /\ bt[b].result = "ok"

\* the outcomes of the four precondition checks
Rejections == {"not_found", "not_confirmed", "min_bid", "leading"}

\* C16  Retry policy of PlaceBid: a call makes at most max_retries attempts;
\* a new attempt follows only a storage exception of the previous one, which
\* wrote nothing; a validation rejection ends the call on the attempt that
\* found it; the error outcome is returned only when the last attempt has
\* failed, and it is none of the rejection reasons.
C16_RetryPolicy ==
  [][\A b \in BidTasks :
       /\ bt'[b].attempt < max_retries
       /\ bt'[b].attempt > bt[b].attempt =>
            /\ bt'[b].attempt = bt[b].attempt + 1
            /\ bt[b].pc \in {"top", "prev", "commit"}
            /\ bt[b].result = "none"
            /\ UNCHANGED dbVars
       /\ (bt[b].result # "error" /\ bt'[b].result = "error") =>
            /\ bt[b].attempt = max_retries - 1
            /\ bt'[b].pc = "done"
            /\ "error" \notin Rejections
       /\ bt[b].result \in Rejections => bt'[b] \in {bt[b], IdleBid}
       /\ (BidSafeReturns(b) /\ bt'[b].result \in Rejections) =>
            bt'[b].attempt = bt[b].attempt]_vars

\* a call has returned the error outcome after its third failed attempt
C16_RetriesExhausted ==
  \E b \in BidTasks :
    bt[b].pc = "done" /\ bt[b].result = "error" /\ bt[b].attempt = max_retries - 1

\* ---- PlaceBid calls one after another with the start_auction_timer call
\* they make, the CancelLastBid dialogue, the clock; no timer fires ---------
NextCancel ==
  \/ \E u \in Users, a \in Amounts : BidRead(1, u, a)
  \/ BidTop(1) \/ BidPrev(1) \/ BidCommit(1) \/ BidPost(1)
  \/ BidSchedReturn(1) \/ BidReturn(1)
  \/ SchedAcquire(Bidder(1)) \/ SchedCheck(Bidder(1)) \/ SchedEndReturn(Bidder(1))
  \/ EndLoad(Bidder(1)) \/ EndPick(Bidder(1)) \/ EndCommit(Bidder(1)) \/ EndTell(Bidder(1))
  \/ TimerFinally(1)
  \/ CancelStep
  \/ Tick

SpecCancel == InitBids /\ [][NextCancel]_vars

\* x is unchallenged for u: a bid of u on an Active auction, the highest and
\* the most recent of the auction's bids
Unchallenged(x, u) ==
  /\ status = "active"
  /\ x \in bids
  /\ x.user = u
  /\ \A y \in bids : y.amount <= x.amount /\ ~Later(y, x)

\* cancel_bid_confirm commits in this step
CancelCommitted == cancel.pc = "commit" /\ cancel'.pc = "idle"

\* C17  CancelLastBid removes a bid only if, at the moment of removal, it is
\* the requester's, on an Active auction, and the highest and most recent bid.
C17_CancelOnlyUnchallenged ==
  [][CancelCommitted => \A x \in bids \ bids' : Unchallenged(x, cancel.user)]_vars

\* C18  While the auction is Active, current_price is the amount of its
\* highest bid, or start_price when it has no bids.
C18_PriceIsTopBid ==
  status = "active" => current_price = PersistedPrice(bids)

\* ---- DeleteAuction against the timer's closure ---------------------------
NextDelete ==
  \/ DeleteStep
  \/ \E t \in TimerTasks :
       \/ EndLoad(Timer(t)) \/ EndPick(Timer(t)) \/ EndCommit(Timer(t))
       \/ EndTell(Timer(t)) \/ EndCommitGone(Timer(t))
  \/ TimerStep
  \/ Tick

SpecDelete == InitIdem /\ [][NextDelete]_vars

NextStop ==
  \/ BidStep
  \/ EndStep
  \/ TimerStep
  \/ SchedStep
  \/ StopStep
  \/ Tick

SpecStop == Init /\ [][NextStop]_vars

\* C20: the step of StopAll that runs under the lock cancels the timer task
\* the registry holds (it is neither sleeping nor closing afterwards), leaves
\* the registry empty and writes nothing to the persisted auction or bids.
C20_StopAllClearsRegistry ==
  [][(phase = "stopping" /\ phase' = "stopped")
       => /\ active_timers' = 0
          /\ active_timers # 0 => tasks'[active_timers].pc \notin {"sleep", "closing"}
          /\ UNCHANGED dbVars]_vars

\* StopAll has run on an Active auction whose deadline is still ahead: its
\* timer task is cancelled and the registry is empty.
C20_StoppedArmedTimer ==
  /\ phase = "stopped"
  /\ status = "active"
  /\ now < ends_at
  /\ active_timers = 0
  /\ \E t \in TimerTasks : tasks[t].pc = "finally"
\* ---- a process start followed by bid traffic ------------------------------
InitBoot == BootInit(1)

NextBoot ==
  \/ NextStartup
  \/ \E u \in Users, a \in Amounts : BidRead(1, u, a)
  \/ BidTop(1) \/ BidPrev(1) \/ BidCommit(1) \/ BidPost(1)
  \/ BidSchedReturn(1) \/ BidReturn(1)

SpecBoot == InitBoot /\ [][NextBoot]_vars

\* the timer task the registry holds is running: asleep until its deadline
\* or already inside _end_auction
LiveTimer ==
  /\ active_timers # 0
  /\ tasks[active_timers].pc \in {"sleep", "closing"}

NextTerminal ==
  \/ EndStep
  \/ TimerStep
  \/ SweepStep
  \/ AdminStep
  \/ CancelStep
  \/ Tick

SpecTerminal == InitIdem /\ [][NextTerminal]_vars

\* the bid the closure recorded as the winning one
WinningBids == {x \in bids : x.user = winner_id /\ x.amount = current_price}

\* C22: Ended is terminal: a step of a timer, the expired-auction sweep,
\* EndEarly or CancelLastBid taken on an Ended auction leaves it Ended, keeps
\* winner_id and current_price, and keeps the winning bid in the ledger.
C22_EndedIsTerminal ==
  [][status = "ended"
       => /\ status' = "ended"
          /\ winner_id' = winner_id
          /\ current_price' = current_price
          /\ WinningBids \subseteq bids']_vars
\* ---- one PlaceBid call against the timer's Close --------------------------
NextRace ==
  \/ \E u \in Users, a \in Amounts : BidRead(1, u, a)
  \/ BidTop(1) \/ BidPrev(1) \/ BidCommit(1) \/ BidPost(1)
  \/ BidSchedReturn(1) \/ BidReturn(1)
  \/ EndStep
  \/ TimerStep
  \/ SchedStep
  \/ Tick

SpecRace == InitClose /\ [][NextRace]_vars

\* C23: PlaceBid and Close on one auction are totally ordered: a bid is
\* committed only while the auction is Active, and the closure that commits
\* names as winner a top bidder of the ledger as it is at that commit.
C23_BidClosureOrdered ==
  [][/\ BidAccepted => status = "active"
     /\ (status = "active" /\ status' = "ended" /\ bids # {})
          => \E x \in TopBids(bids) : winner_id' = x.user]_vars
\* C24: once PlaceBid has committed, the handler goes on to call
\* start_auction_timer with the deadline it wrote, whatever happens to the
\* side effects that come between the commit and the call.
C24_RearmAfterCommit ==
  [][\A b \in BidTasks :
       (bt[b].pc = "post" /\ bt'[b].pc # "post")
         => /\ bt'[b].pc = "sched"
            /\ sat'[Bidder(b)] = [pc |-> "lock", ends |-> bt[b].lbt + BID_TIMEOUT_MINUTES]]_vars
\* C25: a start_auction_timer call that finds the auction not Active returns
\* there: it creates no task and no registry entry, starts no closure,
\* releases the lock and writes nothing to the store.
C25_ScheduleNonActiveNoop ==
  [][\A c \in Callers :
       (sat[c].pc = "check" /\ sat'[c].pc # "check" /\ status # "active")
         => /\ sat'[c] = IdleSat
            /\ lock' = Free
            /\ UNCHANGED <<active_timers, tasks, ea, dbVars>>]_vars

\* a bid handler's start_auction_timer call has the lock and is about to
\* look up an auction that a closure ended after the bid committed
C25_ScheduleOnEnded ==
  /\ status = "ended"
  /\ bt[1].pc = "sched"
  /\ sat[Bidder(1)].pc = "check"
\* ---- a timer task whose closure may fail ----------------------------------
NextFail ==
  \/ \E t \in TimerTasks :
       \/ EndLoad(Timer(t)) \/ EndPick(Timer(t)) \/ EndCommit(Timer(t))
       \/ EndTell(Timer(t)) \/ EndFail(Timer(t))
  \/ TimerStep
  \/ SweepStep
  \/ \E c \in {Sweep} : EndLoad(c) \/ EndPick(c) \/ EndCommit(c) \/ EndTell(c) \/ EndFail(c)
  \/ Tick

SpecFail == InitIdem /\ [][NextFail]_vars

\* C26: a timer task whose closure raised ends like any other: the exception
\* does not leave the task (the task goes through its finally block and is
\* done), its auction's registry entry is removed, and the registry entry
\* of another auction is the same before and after every step of the task.
C26_TimerFailureIsolated ==
  [][/\ \A t \in TimerTasks :
          /\ (tasks[t].pc = "closing" /\ tasks'[t].pc # "closing")
               => tasks'[t].pc = "finally"
          /\ (tasks[t].pc = "finally" /\ tasks'[t].pc # "finally")
               => (tasks'[t].pc = "done" /\ active_timers' = 0)
     /\ other_timers' = other_timers]_vars

\* the timer task is over, its closure having failed: the deadline has
\* passed, the auction is still Active and was never closed, the task's
\* entry is gone and the other auction's timer is still armed
C26_FailedTimerReleased ==
  /\ status = "active"
  /\ closeCount = 0
  /\ now >= ends_at
  /\ tasks[1].pc = "done"
  /\ active_timers = 0
  /\ sweep = "idle"
  /\ other_timers = "sleep"
  /\ UpdInit
\* C27: the registry lock is never held by a coroutine that is inside
\* _end_auction: no closure transaction, channel edit or winner notification
\* runs under the lock.
C27_LockOnlyRegistry ==
  \A c \in Closers : ea[c].pc \in {"load", "pick", "commit", "tell"} => lock # c
\* ---- reconciliation passes and the periodic updater ------------------------
NextUpdater ==
  \/ PassStep
  \/ UpdaterStart \/ UpdaterStop \/ UpdaterTaskEnd
  \/ Tick

SpecUpdater == InitStartup /\ [][NextUpdater]_vars

PassesRunning == {i \in Invokers : pass[i] \in {"list", "edit"}}

\* C28: at most one reconciliation pass is in progress; an invocation made
\* while one is in progress returns without becoming a pass; is_updating is
\* set exactly while a pass is in progress, so it is clear again after a
\* pass that ends early or by an error; start() on a running updater
\* creates no task, and there is never more than one periodic task that
\* has not been cancelled.
C28_PassesDoNotOverlap ==
  /\ [](Cardinality(PassesRunning) <= 1)
  /\ [](is_updating <=> PassesRunning # {})
  /\ [](periodic_tasks.running <= 1)
  /\ [][(is_updating /\ passCalls' # passCalls)
          => (is_updating' /\ PassesRunning' = PassesRunning)]_vars
  /\ [][(is_running /\ starts' # starts)
          => UNCHANGED <<is_running, periodic_tasks>>]_vars

\* an invocation was turned away while a pass was in progress, and after
\* that pass another one is in progress; start() was called on a running
\* updater and there is still one periodic task
C28_SkippedThenRan ==
  /\ pass[1] = "skipped"
  /\ pass[2] = "edit"
  /\ passCalls = 3
  /\ starts = <<"created", "running">>
  /\ periodic_tasks = [running |-> 1, cancelled |-> 0]
\* C29: the channel edit to the terminal form and the winner notification of
\* a closure are sent only once that closure is committed: at every step
\* that sends one, the stored auction is already Ended.
C29_AnnounceAfterCommit ==
  [][(announced' # announced \/ notified' # notified) => status = "ended"]_vars
\* C30: an Active auction has no winner, and every step that writes
\* winner_id is a commit that leaves the auction Ended; PlaceBid,
\* CancelLastBid and Schedule never write it.
C30_WinnerOnlyAtClosure ==
  /\ [](status = "active" => winner_id = NoUser)
  /\ [][winner_id' # winner_id => (status' = "ended" /\ closeCount' = closeCount + 1)]_vars

\* a closure has recorded a winner on an auction that took a bid through
\* PlaceBid, with no cancellation in progress
C30_ClosedWithWinner ==
  /\ status = "ended"
  /\ winner_id # NoUser
  /\ closeCount = 1
  /\ nextBidId > 1
  /\ cancel.pc = "idle"
\* ---- the admin creates the auction on a running bot ------------------------
\* no auction row yet, no timer
InitCreate ==
  /\ status = "deleted"
  /\ bids = {}
  /\ current_price = 0
  /\ last_bid_time = 0
  /\ ends_at = 0
  /\ ended_at = 0
  /\ winner_id = NoUser
  /\ channel_message_id = 0
  /\ nextBidId = 1
  /\ now = 0
  /\ bootTime = 0
  /\ other_timers = "sleep"
  /\ UpdInit
  /\ active_timers = 0
  /\ tasks = [t \in TimerTasks |-> UnusedTask]
  /\ lock = Free
  /\ botSet = TRUE
  /\ ea = [c \in Closers |-> IdleEnd]
  /\ sat = [c \in Callers |-> IdleSat]
  /\ bt = [b \in BidTasks |-> IdleBid]
  /\ bidBudget = 1
  /\ sweep = "idle"
  /\ check = "idle"
  /\ admin = IdleJob
  /\ phase = "polling"
  /\ restore = IdleJob
  /\ fix = IdleJob
  /\ closeCount = 0
  /\ closedBy = Free
  /\ notified = <<>>
  /\ announced = 0
  /\ cancel = IdleCancel
  /\ deletion = "idle"

NextCreate ==
  \/ CreateStep
  \/ \E u \in Users, a \in Amounts : BidRead(1, u, a)
  \/ BidTop(1) \/ BidPrev(1) \/ BidCommit(1) \/ BidPost(1)
  \/ BidSchedReturn(1) \/ BidReturn(1)
  \/ SchedStep
  \/ EndStep
  \/ TimerStep
  \/ Tick

SpecCreate == InitCreate /\ [][NextCreate]_vars

\* C31: on an Active auction ends_at is last_bid_time plus the timeout, and
\* a step that changes ends_at is a commit of a creation, a bid or a bid
\* cancellation that writes last_bid_time with it.
C31_EndsAtDerived ==
  /\ [](status = "active" => ends_at = last_bid_time + BID_TIMEOUT_MINUTES)
  /\ [][ends_at' # ends_at
          => (status' = "active" => ends_at' = last_bid_time' + BID_TIMEOUT_MINUTES)]_vars
\* ---- the periodic refresh beside bids and the timer ------------------------
NextRefresh ==
  \/ RefreshStep
  \/ \E u \in Users, a \in Amounts : BidRead(1, u, a)
  \/ BidTop(1) \/ BidPrev(1) \/ BidCommit(1) \/ BidPost(1)
  \/ BidSchedReturn(1) \/ BidReturn(1)
  \/ SchedStep
  \/ EndStep
  \/ TimerStep
  \/ Tick

SpecRefresh == Init /\ [][NextRefresh]_vars

\* C32: a periodic pass lists the auction whenever it is Active and has a
\* channel post, whatever its bids, and when the pass is over every auction
\* it listed has been tried, those after a failed refresh included.
C32_DriftRepair ==
  [][/\ (refresh.pc = "idle" /\ refresh' # refresh)
          => ((status = "active" /\ channel_message_id # 0) <=> 1 \in refresh'.listed)
     /\ (refresh.pc = "run" /\ refresh'.pc = "idle")
          => refresh'.tried = refresh'.listed]_vars

\* a pass is over in which the refresh of the first auction failed and the
\* second was still tried; no bid was ever placed
C32_PassSurvivedFailure ==
  /\ refresh.pc = "idle"
  /\ refresh.listed = {1, 2}
  /\ refresh.tried = {1, 2}
  /\ refresh.failed # {}
  /\ bids = {}
\* ---- closure and the periodic refresh, every ready coroutine running ------
NextRepair ==
  \/ RefreshStep
  \/ EndStep
  \/ TimerStep
  \/ SweepStep
  \/ Tick

\* the event loop runs every coroutine that is ready: the refresh loop wakes
\* every update_interval, the sweep every 30 s, timers fire, and a closure in
\* flight goes on
FairRepair ==
  /\ WF_vars(RefreshStep)
  /\ WF_vars(SweepStep)
  /\ WF_vars(TimerStep)
  /\ \A c \in Closers : WF_vars(EndLoad(c) \/ EndPick(c) \/ EndCommit(c) \/ EndTell(c))

SpecRepair == InitIdem /\ [][NextRepair]_vars /\ FairRepair

\* C33  An Ended auction that has a channel post eventually has its post
\* edited to the terminal form, even when the edit made by the closure failed.
C33_TerminalViewRepaired ==
  (status = "ended" /\ channel_message_id # 0) ~> (announced > 0)
\* C34  When a PlaceBid call inserts its bid, the previous leading bid it
\* returns is a bid that is top-ranked among the stored bids at that moment
\* (none when there is no stored bid), and it belongs to another bidder.
C34_PreviousLeaderReturned ==
  [][\A b \in BidTasks :
       (bt[b].pc = "commit" /\ bt'[b].pc = "post")
         => /\ bt[b].prev \in TopBidChoices(bids)
            /\ (bt[b].prev # NoBid => bt[b].prev.user # bt[b].user)]_vars
\* C35  Every timer task that is still sleeping towards its deadline is the
\* task active_timers refers to: the cleanup of an older, cancelled task
\* never removes the entry of the task that superseded it.
C35_LiveTimerRegistered ==
  \A t \in TimerTasks : tasks[t].pc = "sleep" => active_timers = t
\* no handler, start_auction_timer call, closure or task cleanup is in flight
NothingInFlight ==
  /\ \A b \in BidTasks : bt[b].pc = "idle"
  /\ \A c \in Callers : sat[c].pc = "idle"
  /\ \A c \in Closers : ea[c].pc = "idle"
  /\ \A t \in TimerTasks : tasks[t].pc \in {"unused", "sleep", "done"}
  /\ cancel.pc = "idle"
  /\ lock = Free

\* C36  Whenever no operation is in flight, every timer task of the Active
\* auction that is sleeping sleeps until the stored ends_at.
C36_TimerTargetsEndsAt ==
  (NothingInFlight /\ status = "active")
    => \A t \in TimerTasks : tasks[t].pc = "sleep" => tasks[t].deadline = ends_at
\* check_and_complete_expired_auctions returns in this step; it runs only
\* when its SELECT listed the auction, so it returns len(expired_auctions) = 1
SweepReturnsOne == sweep = "ending" /\ sweep' = "idle"

\* C37  When check_and_complete_expired_auctions returns the count 1 for the
\* auction it listed, that call has changed the auction from Active to Ended.
C37_CountIsClosures ==
  [][SweepReturnsOne => (status = "ended" /\ closedBy = Sweep)]_vars
\* C38  The amounts of the stored bids are pairwise distinct and grow with the
\* order of acceptance (the bid ids).
C38_AmountsStrictlyIncreasing ==
  \A x \in bids, y \in bids : x.id < y.id => x.amount < y.amount
\* ---- the timer-registry lock: scheduling, firing, cleanup, EndEarly and
\* shutdown, every ready coroutine running ----------------------------------
NextLock ==
  \/ \E u \in Users, a \in Amounts : BidRead(1, u, a)
  \/ BidTop(1) \/ BidPrev(1) \/ BidCommit(1) \/ BidPost(1)
  \/ BidSchedReturn(1) \/ BidReturn(1)
  \/ EndStep
  \/ TimerStep
  \/ \E t \in TimerTasks : TimerQueue(t)
  \/ SchedStep
  \/ AdminStep
  \/ StopStep
  \/ Tick

\* the event loop runs every coroutine that is ready; asyncio.Lock wakes its
\* waiters in the order they came, so a waiter is not passed over for ever
FairLock ==
  /\ \A c \in Callers : SF_vars(SchedAcquire(c)) /\ WF_vars(SchedCheck(c) \/ SchedEndReturn(c))
  /\ \A c \in Closers : WF_vars(EndLoad(c) \/ EndPick(c) \/ EndCommit(c) \/ EndTell(c))
  /\ \A t \in TimerTasks : SF_vars(TimerFinally(t)) /\ WF_vars(TimerEndReturn(t))
  /\ SF_vars(StopClear)

SpecLock == Init /\ [][NextLock]_vars /\ FairLock

\* the task is in its finally block, before or at the acquire of the lock
InCleanup(t) == tasks[t].pc \in {"finally", "queued"}

\* C39  Every start_auction_timer call that waits for the lock returns, every
\* stop_all_timers call that waits for it finishes, and every timer task that
\* has reached its finally block leaves it, and leaves it only by the step
\* that takes the lock, deletes the entry and releases the lock.
C39_LockNeverStuck ==
  /\ \A c \in Callers : (sat[c].pc = "lock") ~> (sat[c].pc = "idle")
  /\ (phase = "stopping") ~> (phase = "stopped")
  /\ \A t \in TimerTasks : InCleanup(t) ~> (tasks[t].pc = "done")
  /\ [][\A t \in TimerTasks :
          (InCleanup(t) /\ ~InCleanup(t)') => TimerFinally(t)]_vars
====
